---- MODULE Spec2Model ----
(***************************************************************************)
(* Chain<T, U> of src/io/read/chain.rs: a reader that yields the first     *)
(* reader's bytes and then the second reader's.                            *)
(*                                                                         *)
(* The two inner readers are type parameters (T: Read / BufRead).  They    *)
(* are modelled as byte sources that answer every poll with one of the     *)
(* three outcomes the Poll<io::Result<..>> type allows: Ready(Ok),         *)
(* Ready(Err) or Pending.  The chain never inspects byte values, so the    *)
(* bytes of the two sources are pairwise distinct symbols: any other       *)
(* content is an image of this one.                                        *)
(***************************************************************************)
EXTENDS Integers, Sequences, FiniteSets, TLC

\* Bounds of the model.
MaxLen == 2         \* longest inner source, in bytes
MaxBuf == 2         \* longest destination buffer, in bytes
MaxLoopLen == 3     \* longest inner source read to its end by the read loop
MaxLoopBuf == 3     \* longest destination buffer of the read loop

VARIABLES
    first,          \* Chain::first, the first inner reader
    second,         \* Chain::second, the second inner reader
    done_first,     \* Chain::done_first
    op,             \* the chain operation of the last step
    arg,            \* its argument: buffer length(s) or the consume amount
    ret,            \* what it returned to the caller
    calls,          \* the inner calls it made, in order
    pre,            \* the chain's state when it was entered
    out,            \* the bytes delivered to the caller, in order, since the
                    \* readers were constructed or last repositioned from outside
    total,          \* sum of the lengths reported by reads and consumed
    stop,           \* the read loop: "run", "eof" or "err"
    first_eof,      \* the first reader has reported end of stream: zero bytes
                    \* for a request with room, or an empty lookahead view
    transitions     \* how often done_first went from false to true

vars == <<first, second, done_first, op, arg, ret, calls, pre, out, total, stop,
         first_eof, transitions>>

Min(a, b) == IF a < b THEN a ELSE b

RECURSIVE Sum(_)
Sum(s) == IF s = <<>> THEN 0 ELSE Head(s) + Sum(Tail(s))

\* The vectored batches tried, each the lengths of its buffers: the empty
\* batch, batches of empty buffers only, and batches with room.
Batches == {<<>>, <<0>>, <<0, 0>>, <<1>>, <<0, 1>>, <<1, 0>>, <<1, MaxBuf>>}

(***************************************************************************)
(* Poll<io::Result<..>>: the three-way result of every poll.               *)
(***************************************************************************)
ErrKinds == {"TimedOut", "BrokenPipe"}

Ok(n, data) == [kind |-> "Ok", n |-> n, data |-> data, err |-> "none"]
Err(e) == [kind |-> "Err", n |-> 0, data |-> <<>>, err |-> e]
Pending == [kind |-> "Pending", n |-> 0, data |-> <<>>, err |-> "none"]
Unit == [kind |-> "Unit", n |-> 0, data |-> <<>>, err |-> "none"]

(***************************************************************************)
(* An inner reader: its bytes, its read position, and how far its          *)
(* lookahead buffer is filled (pos <= cap <= Len(data)).                   *)
(***************************************************************************)
Source(data) == [data |-> data, pos |-> 0, cap |-> 0]

Avail(src) == Len(src.data) - src.pos

Take(src, n) == SubSeq(src.data, src.pos + 1, src.pos + n)

\* T::poll_read(cx, buf) with buf of length len: the outcomes and the reader after.
InnerRead(src, len) ==
    {[res |-> Pending, src |-> src]}
    \cup {[res |-> Err(e), src |-> src] : e \in ErrKinds}
    \cup IF len = 0 \/ Avail(src) = 0
         THEN {[res |-> Ok(0, <<>>), src |-> src]}
         ELSE {[res |-> Ok(n, Take(src, n)),
                src |-> [src EXCEPT !.pos = @ + n,
                                    !.cap = IF src.pos + n > @ THEN src.pos + n ELSE @]]
               : n \in 1..Min(len, Avail(src))}

\* T::poll_read_vectored(cx, bufs): a read into the batch's total room.
InnerReadVectored(src, bufs) == InnerRead(src, Sum(bufs))

\* T::poll_fill_buf(cx): buffered bytes are returned as they are; an empty
\* lookahead buffer is refilled from the rest of the data.
InnerFillBuf(src) ==
    IF src.pos < src.cap
    THEN {[res |-> Ok(src.cap - src.pos, SubSeq(src.data, src.pos + 1, src.cap)), src |-> src]}
    ELSE {[res |-> Pending, src |-> src]}
         \cup {[res |-> Err(e), src |-> src] : e \in ErrKinds}
         \cup IF src.cap = Len(src.data)
              THEN {[res |-> Ok(0, <<>>), src |-> src]}
              ELSE {[res |-> Ok(k, SubSeq(src.data, src.pos + 1, src.cap + k)),
                     src |-> [src EXCEPT !.cap = @ + k]]
                    : k \in 1..(Len(src.data) - src.cap)}

\* T::consume(amt)
InnerConsume(src, amt) == [src EXCEPT !.pos = Min(@ + amt, src.cap)]

(***************************************************************************)
(* The chain.  Every operation is a set of outcomes                        *)
(*   [first, second, done_first, ret, calls]                               *)
(* one for each way the inner readers can answer.                          *)
(***************************************************************************)
\* One call on an inner reader: the reader, the operation, done_first at
\* that moment, the buffer lengths (or amount) passed, and the answer.
Call(src, name, done, buf, res) ==
    [src |-> src, op |-> name, done_first |-> done, buf |-> buf, res |-> res]

Outcome(f, s, d, r, log) ==
    [first |-> f, second |-> s, done_first |-> d, ret |-> r, calls |-> log]

\* ReadMatch with a short read taken for the end of the first reader.
ReadMatch_short(r, buf_len, d) ==
    IF r.kind = "Pending" THEN [return |-> TRUE, done_first |-> d]
    ELSE IF r.kind = "Ok" /\ r.n < buf_len THEN [return |-> FALSE, done_first |-> TRUE]
    ELSE [return |-> TRUE, done_first |-> d]

\* ReadMatch with a failure of the first reader taken for its end.
ReadMatch_errdone(r, buf_len, d) ==
    IF r.kind = "Pending" THEN [return |-> TRUE, done_first |-> d]
    ELSE IF r.kind = "Err" \/ (r.n = 0 /\ buf_len # 0) THEN [return |-> FALSE, done_first |-> TRUE]
    ELSE [return |-> TRUE, done_first |-> d]

\* ReadMatch without the test for an empty destination buffer.
ReadMatch_anyzero(r, buf_len, d) ==
    IF r.kind = "Pending" THEN [return |-> TRUE, done_first |-> d]
    ELSE IF r.kind = "Ok" /\ r.n = 0 THEN [return |-> FALSE, done_first |-> TRUE]
    ELSE [return |-> TRUE, done_first |-> d]

\* ReadMatch that sets the flag and returns the first reader's zero.
ReadMatch_spurious(r, buf_len, d) ==
    IF r.kind = "Pending" THEN [return |-> TRUE, done_first |-> d]
    ELSE IF r.kind = "Ok" /\ r.n = 0 /\ buf_len # 0 THEN [return |-> TRUE, done_first |-> TRUE]
    ELSE [return |-> TRUE, done_first |-> d]

\* ReadMatch without futures_core::ready!: a pending first reader falls through.
ReadMatch_noready(r, buf_len, d) ==
    IF r.kind = "Pending" THEN [return |-> FALSE, done_first |-> d]
    ELSE IF r.kind = "Ok" /\ r.n = 0 /\ buf_len # 0 THEN [return |-> FALSE, done_first |-> TRUE]
    ELSE [return |-> TRUE, done_first |-> d]

\* ReadMatch without the arm that sets the flag: the first reader's zero is returned.
ReadMatch_noflag(r, buf_len, d) ==
    [return |-> TRUE, done_first |-> d]

\* poll_read: futures_core::ready! and the match on the first reader's result.
ReadMatch(r, buf_len, d) ==
    IF r.kind = "Pending" THEN [return |-> TRUE, done_first |-> d]
    ELSE IF r.kind = "Ok" /\ r.n = 0 /\ buf_len # 0 THEN [return |-> FALSE, done_first |-> TRUE]
    ELSE [return |-> TRUE, done_first |-> d]

\* SecondPollRead that starts over with the first reader once the second ends.
SecondPollRead_reset(f, s, d, buf_len, log) ==
    {Outcome(f, o.src, IF o.res.kind = "Ok" /\ o.res.n = 0 /\ buf_len # 0 THEN FALSE ELSE d,
             o.res, Append(log, Call("second", "poll_read", d, <<buf_len>>, o.res)))
     : o \in InnerRead(s, buf_len)}

\* poll_read: the read forwarded to the second reader.
SecondPollRead(f, s, d, buf_len, log) ==
    {Outcome(f, o.src, d, o.res, Append(log, Call("second", "poll_read", d, <<buf_len>>, o.res)))
     : o \in InnerRead(s, buf_len)}

poll_read(f, s, d, buf_len) ==
    IF ~d
    THEN UNION {
        LET m == ReadMatch(o.res, buf_len, d)
            log == <<Call("first", "poll_read", d, <<buf_len>>, o.res)>>
        IN  IF m.return
            THEN {Outcome(o.src, s, m.done_first, o.res, log)}
            ELSE SecondPollRead(o.src, s, m.done_first, buf_len, log)
        : o \in InnerRead(f, buf_len)}
    ELSE SecondPollRead(f, s, d, buf_len, <<>>)

\* VecMatch without futures_core::ready!: a pending first reader falls through.
VecMatch_noready(r, bufs, d) ==
    IF r.kind = "Pending" THEN [return |-> FALSE, done_first |-> d]
    ELSE IF r.kind = "Ok" /\ r.n = 0 /\ Len(bufs) # 0 THEN [return |-> FALSE, done_first |-> TRUE]
    ELSE [return |-> TRUE, done_first |-> d]

\* VecMatch with a batch not filled taken for the end of the first reader.
VecMatch_short(r, bufs, d) ==
    IF r.kind = "Pending" THEN [return |-> TRUE, done_first |-> d]
    ELSE IF r.kind = "Ok" /\ r.n < Sum(bufs) THEN [return |-> FALSE, done_first |-> TRUE]
    ELSE [return |-> TRUE, done_first |-> d]

\* poll_read_vectored: futures_core::ready! and the match on the first reader's result.
VecMatch(r, bufs, d) ==
    IF r.kind = "Pending" THEN [return |-> TRUE, done_first |-> d]
    ELSE IF r.kind = "Ok" /\ r.n = 0 /\ Len(bufs) # 0 THEN [return |-> FALSE, done_first |-> TRUE]
    ELSE [return |-> TRUE, done_first |-> d]

\* SecondPollReadVectored that hands on the first buffer of the batch only.
SecondPollReadVectored_head(f, s, d, bufs, log) ==
    LET head == IF bufs = <<>> THEN <<>> ELSE <<Head(bufs)>>
    IN  {Outcome(f, o.src, d, o.res,
                 Append(log, Call("second", "poll_read_vectored", d, head, o.res)))
         : o \in InnerReadVectored(s, head)}

\* poll_read_vectored: the read forwarded to the second reader.
SecondPollReadVectored(f, s, d, bufs, log) ==
    {Outcome(f, o.src, d, o.res, Append(log, Call("second", "poll_read_vectored", d, bufs, o.res)))
     : o \in InnerReadVectored(s, bufs)}

poll_read_vectored(f, s, d, bufs) ==
    IF ~d
    THEN UNION {
        LET m == VecMatch(o.res, bufs, d)
            log == <<Call("first", "poll_read_vectored", d, bufs, o.res)>>
        IN  IF m.return
            THEN {Outcome(o.src, s, m.done_first, o.res, log)}
            ELSE SecondPollReadVectored(o.src, s, m.done_first, bufs, log)
        : o \in InnerReadVectored(f, bufs)}
    ELSE SecondPollReadVectored(f, s, d, bufs, <<>>)

\* FillMatch that sets the flag before it looks at the first reader's answer.
FillMatch_pendingdone(r, d) ==
    IF r.kind = "Pending" THEN [return |-> TRUE, done_first |-> TRUE]
    ELSE IF r.kind = "Ok" /\ Len(r.data) = 0 THEN [return |-> FALSE, done_first |-> TRUE]
    ELSE [return |-> TRUE, done_first |-> d]

\* FillMatch that sets the flag and returns the first reader's empty view.
FillMatch_spurious(r, d) ==
    IF r.kind = "Pending" THEN [return |-> TRUE, done_first |-> d]
    ELSE IF r.kind = "Ok" /\ Len(r.data) = 0 THEN [return |-> TRUE, done_first |-> TRUE]
    ELSE [return |-> TRUE, done_first |-> d]

\* FillMatch that falls through on an empty view without setting the flag.
FillMatch_noflag(r, d) ==
    IF r.kind = "Pending" THEN [return |-> TRUE, done_first |-> d]
    ELSE IF r.kind = "Ok" /\ Len(r.data) = 0 THEN [return |-> FALSE, done_first |-> d]
    ELSE [return |-> TRUE, done_first |-> d]

\* poll_fill_buf: futures_core::ready! and the match on the first reader's view.
FillMatch(r, d) ==
    IF r.kind = "Pending" THEN [return |-> TRUE, done_first |-> d]
    ELSE IF r.kind = "Ok" /\ Len(r.data) = 0 THEN [return |-> FALSE, done_first |-> TRUE]
    ELSE [return |-> TRUE, done_first |-> d]

\* poll_fill_buf: the request forwarded to the second reader.
SecondPollFillBuf(f, s, d, log) ==
    {Outcome(f, o.src, d, o.res, Append(log, Call("second", "poll_fill_buf", d, <<>>, o.res)))
     : o \in InnerFillBuf(s)}

poll_fill_buf(f, s, d) ==
    IF ~d
    THEN UNION {
        LET m == FillMatch(o.res, d)
            log == <<Call("first", "poll_fill_buf", d, <<>>, o.res)>>
        IN  IF m.return
            THEN {Outcome(o.src, s, m.done_first, o.res, log)}
            ELSE SecondPollFillBuf(o.src, s, m.done_first, log)
        : o \in InnerFillBuf(f)}
    ELSE SecondPollFillBuf(f, s, d, <<>>)

\* consume that forgets the flag and always advances the first reader.
consume_first(f, s, d, amt) ==
    Outcome(InnerConsume(f, amt), s, d, Unit, <<Call("first", "consume", d, <<amt>>, Unit)>>)

\* consume with the branches exchanged.
consume_swapped(f, s, d, amt) ==
    IF d
    THEN Outcome(InnerConsume(f, amt), s, d, Unit, <<Call("first", "consume", d, <<amt>>, Unit)>>)
    ELSE Outcome(f, InnerConsume(s, amt), d, Unit, <<Call("second", "consume", d, <<amt>>, Unit)>>)

consume(f, s, d, amt) ==
    IF ~d
    THEN Outcome(InnerConsume(f, amt), s, d, Unit, <<Call("first", "consume", d, <<amt>>, Unit)>>)
    ELSE Outcome(f, InnerConsume(s, amt), d, Unit, <<Call("second", "consume", d, <<amt>>, Unit)>>)

\* get_mut hands out both readers; the caller repositions one of them.
get_mut(f, s, d, which) ==
    IF which = "first"
    THEN Outcome([f EXCEPT !.pos = 0, !.cap = 0], s, d, Unit, <<>>)
    ELSE Outcome(f, [s EXCEPT !.pos = 0, !.cap = 0], d, Unit, <<>>)

\* The bytes a consume skipped in a reader.
Consumed(old, new) == SubSeq(old.data, old.pos + 1, new.pos)

\* A chain newly made of two readers of at most longest bytes each (the
\* readers are listed from the longest to the empty one).
InitChain(longest) ==
    /\ \E k \in 0..longest, l \in 0..longest :
        /\ first = Source([i \in 1..(longest - k) |-> i])
        /\ second = Source([i \in 1..(longest - l) |-> longest + i])
    /\ done_first = FALSE
    /\ op = "init"
    /\ arg = <<>>
    /\ ret = Unit
    /\ calls = <<>>
    /\ pre = [done_first |-> FALSE, started |-> FALSE, repositioned |-> "none", view |-> 0]
    /\ out = <<>>
    /\ total = 0
    /\ stop = "run"
    /\ first_eof = FALSE
    /\ transitions = 0

Init == InitChain(MaxLen)

InitLoop == InitChain(MaxLoopLen)

\* The first reader reported end of stream in one of these inner calls, made
\* for a request with `room` bytes of room.
ReportsEof(log, room) ==
    \E i \in DOMAIN log :
        /\ log[i].src = "first"
        /\ log[i].op # "consume"
        /\ log[i].res.kind = "Ok"
        /\ log[i].res.n = 0
        /\ room > 0

\* The bookkeeping common to every step: o is the outcome taken, a the
\* argument, room the room the caller offered, delivered the bytes handed to
\* the caller and n their reported number.
Record(o, name, a, room, delivered, n) ==
    /\ first' = o.first
    /\ second' = o.second
    /\ done_first' = o.done_first
    /\ op' = name
    /\ arg' = a
    /\ ret' = o.ret
    /\ calls' = o.calls
    /\ pre' = [done_first |-> done_first,
               started |-> op # "init",
               repositioned |-> IF op = "get_mut" THEN arg[1] ELSE "none",
               view |-> IF op = "poll_fill_buf" /\ ret.kind = "Ok" THEN Len(ret.data) ELSE 0]
    /\ out' = IF name = "get_mut" THEN <<>> ELSE out \o delivered
    /\ total' = IF name = "get_mut" THEN 0 ELSE total + n
    /\ first_eof' = (first_eof \/ ReportsEof(o.calls, room))
    /\ transitions' = IF ~done_first /\ o.done_first THEN Min(transitions + 1, 2)
                      ELSE transitions

PollRead ==
    \E len \in 0..MaxBuf :
        \E o \in poll_read(first, second, done_first, len) :
            /\ Record(o, "poll_read", <<len>>, len, o.ret.data, o.ret.n)
            /\ UNCHANGED stop

PollReadVectored ==
    \E bufs \in Batches :
        \E o \in poll_read_vectored(first, second, done_first, bufs) :
            /\ Record(o, "poll_read_vectored", bufs, Sum(bufs), o.ret.data, o.ret.n)
            /\ UNCHANGED stop

\* A lookahead request names no buffer of the caller's: it always has room.
PollFillBuf ==
    \E o \in poll_fill_buf(first, second, done_first) :
        /\ Record(o, "poll_fill_buf", <<>>, 1, <<>>, 0)
        /\ UNCHANGED stop

Consume ==
    \E amt \in 0..MaxBuf :
        LET o == consume(first, second, done_first, amt)
        IN  /\ Record(o, "consume", <<amt>>, 0,
                      Consumed(first, o.first) \o Consumed(second, o.second),
                      (o.first.pos - first.pos) + (o.second.pos - second.pos))
            /\ UNCHANGED stop

GetMut ==
    \E which \in {"first", "second"} :
        LET o == get_mut(first, second, done_first, which)
        IN  /\ Record(o, "get_mut", <<which>>, 0, <<>>, 0)
            /\ UNCHANGED stop

\* The read-to-end loop: plain reads into a non-empty buffer until one
\* reports zero bytes; a failure ends it as well.
LoopRead ==
    /\ stop = "run"
    /\ \E len \in 1..MaxLoopBuf :
        \E o \in poll_read(first, second, done_first, len) :
            /\ Record(o, "poll_read", <<len>>, len, o.ret.data, o.ret.n)
            /\ stop' = IF o.ret.kind = "Err" THEN "err"
                       ELSE IF o.ret.kind = "Ok" /\ o.ret.n = 0 THEN "eof"
                       ELSE "run"

Next ==
    \/ PollRead
    \/ PollReadVectored
    \/ PollFillBuf
    \/ Consume

Spec == Init /\ [][Next]_vars

\* The chain's operations, with the inner readers repositioned from outside.
NextMut ==
    \/ PollRead
    \/ PollReadVectored
    \/ PollFillBuf
    \/ Consume
    \/ GetMut

SpecMut == Init /\ [][NextMut]_vars

NextLoop == LoopRead

\* The read loop over readers that never fail.
LoopReadLive == LoopRead /\ ret'.kind # "Err"

\* A read of the loop that completes.
LoopProgress == LoopRead /\ ret'.kind = "Ok"

NextLive == LoopReadLive

\* The caller keeps reading and no reader stays not ready for ever: a read
\* that can complete eventually does.
SpecLive == InitLoop /\ [][NextLive]_vars /\ WF_vars(LoopProgress)

SpecLoop == InitLoop /\ [][NextLoop]_vars
(***************************************************************************)
(* Properties.                                                             *)
(***************************************************************************)
ChainOps == {"poll_read", "poll_read_vectored", "poll_fill_buf", "consume"}

PollOps == {"poll_read", "poll_read_vectored", "poll_fill_buf"}

\* The inner calls of the last step that went to reader src.
CallsTo(src) == {i \in DOMAIN calls : calls[i].src = src}

\* C1: when the read loop (plain reads into non-empty buffers until one
\* reports zero bytes) ends, the bytes delivered are exactly the first
\* reader's followed by the second's, and the reported lengths add up to
\* the two lengths.
C1_ReadToEnd ==
    stop = "eof" =>
        /\ out = first.data \o second.data
        /\ total = Len(first.data) + Len(second.data)

C1_Witness ==
    /\ stop = "eof"
    /\ Len(first.data) = MaxLoopLen
    /\ Len(second.data) = MaxLoopLen
    /\ Len(out) = 2 * MaxLoopLen

\* C2: once done_first is true no step makes it false again, so it goes
\* from false to true at most once.
C2_DoneFirstStays == [][done_first => done_first']_vars

C2_Witness ==
    /\ pre.done_first
    /\ done_first
    /\ op = "poll_read"
    /\ ret.kind = "Ok"
    /\ ret.n = 0
    /\ arg[1] > 0

\* C3: every call forwarded to the second reader is made at a moment when
\* done_first is true.
C3_SecondOnlyWhenDone ==
    \A i \in DOMAIN calls : calls[i].src = "second" => calls[i].done_first

C3_Witness ==
    /\ op \in PollOps
    /\ ~pre.done_first
    /\ Len(calls) = 2
    /\ calls[2].src = "second"

\* C4: done_first goes from false to true at most once, and not before the
\* first reader has reported end of stream for a request with room.
C4_TransitionAfterEof ==
    /\ transitions <= 1
    /\ done_first => first_eof

\* C5: a failure of an inner reader is what the chain returns from that
\* very call; the failing reader was polled once, done_first is what it was
\* when that reader was polled, a failing first reader keeps the second from
\* being polled, and every error the chain returns is an inner reader's.
C5_FailurePropagates ==
    /\ \A i \in DOMAIN calls :
        calls[i].res.kind = "Err" => i = Len(calls) /\ ret = calls[i].res
    /\ ret.kind = "Err" =>
        /\ op \in PollOps
        /\ Len(calls) >= 1
        /\ calls[Len(calls)].res = ret
        /\ Cardinality(CallsTo(calls[Len(calls)].src)) = 1
        /\ done_first = calls[Len(calls)].done_first
        /\ calls[Len(calls)].src = "first" =>
            /\ Len(calls) = 1
            /\ done_first = pre.done_first

C5_Witness ==
    /\ op = "poll_read"
    /\ ret.kind = "Err"
    /\ calls[1].src = "first"
    /\ Avail(first) > 0
    /\ arg[1] > 0

\* The last step was a plain read into an empty buffer, entered with
\* done_first false.
EmptyRead == op = "poll_read" /\ arg = <<0>> /\ ~pre.done_first

\* C6 as stated: such a read returns zero bytes, leaves done_first false and
\* does not poll the second reader.
C6_EmptyReadReturnsZero ==
    EmptyRead =>
        /\ ret = Ok(0, <<>>)
        /\ ~done_first
        /\ CallsTo("second") = {}

\* C6 amended: such a read returns what the first reader answers (zero bytes
\* when it completes), leaves done_first false and does not poll the second
\* reader; and a plain read with room that follows one that completed polls
\* the first reader, and what that reader then delivers is its next bytes.
C6_EmptyReadIsNoOp ==
    /\ [](EmptyRead =>
            /\ Len(calls) = 1
            /\ calls[1].src = "first"
            /\ ret = calls[1].res
            /\ ret.kind = "Ok" => ret.n = 0
            /\ ~done_first)
    /\ [][(EmptyRead /\ ret.kind = "Ok" /\ op' = "poll_read" /\ arg'[1] > 0
            /\ Avail(first) > 0) =>
                /\ calls'[1].src = "first"
                /\ calls'[1].res.kind = "Ok" =>
                    /\ ret' = calls'[1].res
                    /\ ret'.n > 0
                    /\ ret'.data = Take(first, ret'.n)]_vars

C6_Witness ==
    /\ EmptyRead
    /\ ret = Ok(0, <<>>)
    /\ Avail(first) > 0
    /\ ~done_first

\* The last step was the chain's very first operation, a plain read, the
\* first reader being empty and the second not.
FirstReadOfEmptyFirst ==
    /\ op = "poll_read"
    /\ ~pre.started
    /\ Len(first.data) = 0
    /\ Len(second.data) > 0

C8_FirstNeverAgain ==
    (op \in ChainOps /\ pre.done_first) => CallsTo("first") = {}

C8_Witness ==
    /\ op = "poll_read"
    /\ pre.done_first
    /\ pre.repositioned = "first"
    /\ Avail(first) > 0
    /\ arg[1] > 0
    /\ ret.kind = "Ok"
    /\ ret.n = 0

\* C9: a vectored read entered with done_first false sets done_first exactly
\* when the first reader reports zero bytes and some buffer of the batch is
\* non-empty; zero bytes for a batch without room is returned as it is,
\* with done_first still false and the second reader not polled.
C9_VectoredTransition ==
    (op = "poll_read_vectored" /\ ~pre.done_first) =>
        /\ done_first <=> (calls[1].res.kind = "Ok" /\ calls[1].res.n = 0 /\ Sum(arg) > 0)
        /\ (calls[1].res.kind = "Ok" /\ Sum(arg) = 0) =>
            /\ ret = Ok(0, <<>>)
            /\ ~done_first
            /\ CallsTo("second") = {}

\* The reader the flag makes active.
Active == IF done_first THEN second ELSE first

Inactive == IF done_first THEN first ELSE second

\* C10: a peek whose active reader holds buffered bytes returns them, a
\* non-empty view; and a consume of at most the view's length that follows
\* a peek advances the active reader by that amount and leaves the other
\* reader as it was.
C10_PeekThenConsume ==
    /\ []((op = "poll_fill_buf" /\ Active.pos < Active.cap /\ pre.done_first = done_first) =>
            /\ ret.kind = "Ok"
            /\ ret.n > 0
            /\ ret.data = SubSeq(Active.data, Active.pos + 1, Active.cap))
    /\ [][(op = "poll_fill_buf" /\ ret.kind = "Ok" /\ op' = "consume"
            /\ arg'[1] <= Len(ret.data)) =>
                /\ Active'.pos = Active.pos + arg'[1]
                /\ Active'.cap = Active.cap
                /\ Inactive' = Inactive
                /\ done_first' = done_first]_vars

C10_Witness ==
    /\ op = "consume"
    /\ pre.view = 2
    /\ arg = <<2>>
    /\ pre.done_first
    /\ second.pos = 2
\* The last inner call of the last step.
LastCall == calls[Len(calls)]

\* C11 as stated: a call that returns not-yet-ready leaves done_first at the
\* value it had before the call.
C11_PendingKeepsEntryFlag ==
    (op \in PollOps /\ ret.kind = "Pending") => done_first = pre.done_first

\* C11 amended: a call that returns not-yet-ready leaves done_first at the
\* value it had when the reader that was not ready was polled.  That is the
\* value before the call when the first reader was not ready; when the
\* second reader was not ready in a call entered with done_first false, the
\* first reader had reported its end in that call and done_first is true.
C11_PendingKeepsPolledFlag ==
    (op \in PollOps /\ ret.kind = "Pending") =>
        /\ LastCall.res = Pending
        /\ done_first = LastCall.done_first
        /\ LastCall.src = "first" =>
            /\ Len(calls) = 1
            /\ done_first = pre.done_first
        /\ LastCall.src = "second" =>
            /\ done_first
            /\ ~pre.done_first =>
                /\ Len(calls) = 2
                /\ calls[1].src = "first"
                /\ calls[1].res = Ok(0, <<>>)

C11_Witness ==
    /\ op = "poll_read"
    /\ ret.kind = "Pending"
    /\ ~pre.done_first
    /\ done_first
    /\ Avail(second) > 0

\* C12: a first reader that is not ready ends the call with not-yet-ready
\* and the second reader unpolled; a call that returns not-yet-ready moves
\* neither reader and delivers nothing; and when the same operation is
\* invoked next, it polls the reader that was not ready first, and polls the
\* other reader only after that one has completed its poll.
C12_ResumeSameReader ==
    /\ []((op \in PollOps /\ calls[1].src = "first" /\ calls[1].res.kind = "Pending") =>
            /\ ret = Pending
            /\ Len(calls) = 1)
    /\ [][(op' \in PollOps /\ ret'.kind = "Pending") =>
            /\ first' = first
            /\ second' = second
            /\ out' = out
            /\ total' = total]_vars
    /\ [][(op \in PollOps /\ ret.kind = "Pending" /\ op' = op) =>
            /\ calls'[1].src = LastCall.src
            /\ \A i \in DOMAIN calls' :
                calls'[i].src # LastCall.src => (i > 1 /\ calls'[1].res.kind = "Ok")]_vars

C12_Witness ==
    /\ op = "poll_read_vectored"
    /\ ret.kind = "Pending"
    /\ Len(calls) = 1
    /\ calls[1].src = "first"
    /\ Avail(first) > 0
    /\ first.pos > 0
\* C13: a peek entered with done_first false returns a non-empty view of the
\* first reader at once, done_first still false and the second reader
\* unpolled; on an empty view it sets done_first and, in the same call, asks
\* the second reader and returns its answer.  Entered with done_first true
\* it asks the second reader only.
C13_FillBuf ==
    op = "poll_fill_buf" =>
        /\ pre.done_first =>
            /\ Len(calls) = 1
            /\ calls[1].src = "second"
            /\ ret = calls[1].res
            /\ done_first
        /\ ~pre.done_first =>
            /\ calls[1].src = "first"
            /\ (calls[1].res.kind = "Ok" /\ calls[1].res.n > 0) =>
                /\ Len(calls) = 1
                /\ ret = calls[1].res
                /\ ~done_first
            /\ calls[1].res = Ok(0, <<>>) =>
                /\ done_first
                /\ Len(calls) = 2
                /\ calls[2].src = "second"
                /\ calls[2].op = "poll_fill_buf"
                /\ calls[2].done_first
                /\ ret = calls[2].res

C13_Witness ==
    /\ op = "poll_fill_buf"
    /\ ~pre.done_first
    /\ Len(calls) = 2
    /\ ret.kind = "Ok"
    /\ ret.n > 0

Reads == {"poll_read", "poll_read_vectored"}

\* C14: a read entered with done_first true, or one in which done_first was
\* just set, polls the second reader with the caller's buffer(s) and returns
\* that reader's answer as it is; a zero answer of the second reader leaves
\* done_first true, and the next read asks the second reader again.
C14_SecondVerbatim ==
    /\ []((op \in Reads /\ (pre.done_first \/ done_first)) =>
            /\ LastCall.src = "second"
            /\ pre.done_first => Len(calls) = 1)
    /\ []((op \in Reads /\ LastCall.src = "second") =>
            /\ LastCall.done_first
            /\ LastCall.op = op
            /\ LastCall.buf = arg
            /\ ret = LastCall.res
            /\ done_first)
    /\ [][(op \in Reads /\ LastCall.src = "second" /\ ret = Ok(0, <<>>) /\ op' \in Reads) =>
            /\ done_first'
            /\ Len(calls') = 1
            /\ calls'[1].src = "second"]_vars

C14_Witness ==
    /\ op = "poll_read_vectored"
    /\ ~pre.done_first
    /\ LastCall.src = "second"
    /\ arg = <<0, 1>>
    /\ ret.kind = "Ok"
    /\ ret.n = 1

\* C15: a read that the first reader completes with n > 0 bytes returns
\* those n bytes, leaves done_first false (also when they were the first
\* reader's last) and leaves the second reader as it was; done_first is set
\* only in a call in which the first reader reports zero.
C15_NonZeroFromFirst ==
    /\ []((op \in Reads /\ calls[1].src = "first" /\ calls[1].res.kind = "Ok"
            /\ calls[1].res.n > 0) =>
                /\ Len(calls) = 1
                /\ ret = calls[1].res
                /\ ~done_first)
    /\ [][(op' \in Reads /\ calls'[1].src = "first" /\ calls'[1].res.kind = "Ok"
            /\ calls'[1].res.n > 0) =>
                /\ second' = second
                /\ ret'.data = Take(first, ret'.n)
                /\ first'.pos = first.pos + ret'.n]_vars
    /\ [][(~done_first /\ done_first') =>
            /\ calls'[1].src = "first"
            /\ calls'[1].res = Ok(0, <<>>)]_vars

C15_Witness ==
    /\ op = "poll_read"
    /\ calls[1].src = "first"
    /\ ret.kind = "Ok"
    /\ ret.n > 0
    /\ Avail(first) = 0
    /\ ~done_first
\* C16: under every interleaving of plain reads, vectored reads, peeks and
\* consumes, the bytes delivered so far are a prefix of the first reader's
\* bytes followed by the second reader's.
C16_PrefixOfFirstThenSecond ==
    /\ Len(out) <= Len(first.data) + Len(second.data)
    /\ out = SubSeq(first.data \o second.data, 1, Len(out))
\* C17: a consume that follows a peek which returned a view goes to the
\* reader that produced the view, with the caller's amount, also when the
\* peek itself set done_first.
C17_ConsumeFollowsView ==
    [][(op = "poll_fill_buf" /\ ret.kind = "Ok" /\ op' = "consume") =>
        /\ Len(calls') = 1
        /\ calls'[1].op = "consume"
        /\ calls'[1].src = LastCall.src
        /\ calls'[1].buf = arg']_vars

C17_Witness ==
    /\ op = "consume"
    /\ pre.view > 0
    /\ arg = <<1>>
    /\ calls[1].src = "second"
    /\ Len(first.data) = 0
    /\ out = <<second.data[1]>>

\* C18: with readers that never fail and are not for ever not ready, the
\* read loop eventually has done_first true and eventually receives the
\* zero-length result that ends it.
C18_LoopTerminates ==
    /\ <>done_first
    /\ <>(stop = "eof" /\ ret = Ok(0, <<>>))

C18_Witness ==
    /\ stop = "eof"
    /\ done_first
    /\ ret = Ok(0, <<>>)
    /\ Len(first.data) = 1
    /\ Len(second.data) = 1
    /\ total = 2
====
